---- MODULE Spec2Model ----
(***************************************************************************)
(* Semantic geocoding cache of Next-Maps (backend/services and            *)
(* backend/utils), modelled as a state machine.                            *)
(*                                                                         *)
(* Representation choices                                                  *)
(*  - A string is a sequence of one-character strings, so that            *)
(*    normalizeAddress and fallbackEmbedding work on characters.  The      *)
(*    Devanagari letters of an address are written by their code points,   *)
(*    "U+092A" and "U+0941".                                               *)
(*  - A coordinate pair lies on one meridian (lng is the same for every    *)
(*    point) and lat is measured in metres of arc along that meridian.     *)
(*    For two points of one meridian the haversine formula gives           *)
(*    a = sin^2(dphi/2), c = |dphi| and R * c = |lat1 - lat2| in these     *)
(*    units, which is what haversineDistance computes below.               *)
(*  - An embedding is an integer vector.  Cosine similarity does not       *)
(*    depend on the length of its arguments, so the fallback embedding is  *)
(*    kept before its division by the magnitude (and times 1000).  A       *)
(*    similarity is kept as the exact fraction dot / sqrt(mag1 * mag2)     *)
(*    and compared exactly; floating-point rounding is not modelled.       *)
(*  - The event loop runs one continuation at a time: every action below   *)
(*    is the code between two awaits that wait for the network.            *)
(***************************************************************************)
EXTENDS Integers, Sequences, FiniteSets, TLC

(***************************************************************************)
(* Bounds of the model.                                                    *)
(***************************************************************************)
\* capacity of cacheEntries; stands for the 1000 of store()
Capacity == 2
\* number of store() calls explored in one behaviour
MaxStores == 3
\* number of requests in flight at the same time
NumSlots == 2
\* length of the fallback embedding; stands for the 384 of fallbackEmbedding()
FallbackDim == 3
\* length of the addresses given to normalizeAddress on its own
MaxAddressLen == 4
\* number of entries given to findSimilar on its own
MaxEntries == 3

(***************************************************************************)
(* Program constants.                                                      *)
(***************************************************************************)
\* SIMILARITY_THRESHOLD = 0.85 = SimNum / SimDen
SimNum == 17
SimDen == 20
\* DISTANCE_THRESHOLD_METERS
DISTANCE_THRESHOLD == 500
\* radius passed to findNearby by reverseGeocodeWithCache
REVERSE_RADIUS == 100

(***************************************************************************)
(* Characters.                                                             *)
(***************************************************************************)
LowerLetters ==
  << "a","b","c","d","e","f","g","h","i","j","k","l","m",
     "n","o","p","q","r","s","t","u","v","w","x","y","z" >>
UpperLetters ==
  << "A","B","C","D","E","F","G","H","I","J","K","L","M",
     "N","O","P","Q","R","S","T","U","V","W","X","Y","Z" >>
Digits == << "0","1","2","3","4","5","6","7","8","9" >>

Range(s) == { s[i] : i \in DOMAIN s }

LowerSet == Range(LowerLetters)
UpperSet == Range(UpperLetters)
\* the characters of the regular expression class \w
WordSet == LowerSet \cup UpperSet \cup Range(Digits) \cup { "_" }

IndexOf(s, c) == CHOOSE i \in DOMAIN s : s[i] = c

\* String.prototype.toLowerCase on one character
LowerChar(c) ==
  IF c \in UpperSet THEN LowerLetters[IndexOf(UpperLetters, c)] ELSE c

toLowerCase(s) == [ i \in DOMAIN s |-> LowerChar(s[i]) ]

\* the regular expression class \s
IsSpace(c) == c \in { " ", "\t" }

\* the regular expression class \w
IsWord(c) == c \in WordSet

\* String.prototype.charCodeAt for the characters of the model
charCode(c) ==
  IF c \in LowerSet THEN 96 + IndexOf(LowerLetters, c)
  ELSE IF c \in UpperSet THEN 64 + IndexOf(UpperLetters, c)
  ELSE IF c \in Range(Digits) THEN 47 + IndexOf(Digits, c)
  ELSE IF c = " " THEN 32
  ELSE IF c = "\t" THEN 9
  ELSE IF c = "," THEN 44
  ELSE IF c = "." THEN 46
  ELSE IF c = "U+092A" THEN 2346
  ELSE IF c = "U+0941" THEN 2369
  ELSE 95

RECURSIVE TrimLeft(_)
TrimLeft(s) ==
  IF s # << >> /\ IsSpace(Head(s)) THEN TrimLeft(Tail(s)) ELSE s

RECURSIVE TrimRight(_)
TrimRight(s) ==
  IF s # << >> /\ IsSpace(s[Len(s)]) THEN TrimRight(SubSeq(s, 1, Len(s) - 1)) ELSE s

\* String.prototype.trim
trim(s) == TrimRight(TrimLeft(s))

\* .replace(/\s+/g, ' ')
RECURSIVE CollapseSpaces(_)
CollapseSpaces(s) ==
  IF s = << >> THEN << >>
  ELSE IF IsSpace(Head(s))
       THEN << " " >> \o CollapseSpaces(TrimLeft(s))
       ELSE << Head(s) >> \o CollapseSpaces(Tail(s))

\* .replace(/[^\w\s]/g, '')
RemovePunctuation(s) == SelectSeq(s, LAMBDA c : IsWord(c) \/ IsSpace(c))

\* the regular expression \bw\b matches at position i of s
WordAt(s, w, i) ==
  /\ i + Len(w) - 1 <= Len(s)
  /\ SubSeq(s, i, i + Len(w) - 1) = w
  /\ (i = 1 \/ ~IsWord(s[i - 1]))
  /\ (i + Len(w) - 1 = Len(s) \/ ~IsWord(s[i + Len(w)]))

\* .replace(/\bw\b/g, r), from position i on
RECURSIVE ReplaceWordFrom(_, _, _, _)
ReplaceWordFrom(s, w, r, i) ==
  IF i > Len(s) THEN << >>
  ELSE IF WordAt(s, w, i)
       THEN r \o ReplaceWordFrom(s, w, r, i + Len(w))
       ELSE << s[i] >> \o ReplaceWordFrom(s, w, r, i + 1)

ReplaceWord(s, w, r) == ReplaceWordFrom(s, w, r, 1)

W_rd == << "r","d" >>
W_road == << "r","o","a","d" >>
W_st == << "s","t" >>
W_street == << "s","t","r","e","e","t" >>
W_ave == << "a","v","e" >>
W_avenue == << "a","v","e","n","u","e" >>
W_mh == << "m","h" >>
W_maha == << "m","a","h","a" >>
W_maharashtra == << "m","a","h","a","r","a","s","h","t","r","a" >>

normalizeAddress(address) ==
  LET s1 == toLowerCase(address)
      s2 == trim(s1)
      s3 == CollapseSpaces(s2)
      s4 == RemovePunctuation(s3)
      s5 == ReplaceWord(s4, W_rd, W_road)
      s6 == ReplaceWord(s5, W_st, W_street)
      s7 == ReplaceWord(s6, W_ave, W_avenue)
      s8 == ReplaceWord(s7, W_mh, W_maharashtra)
  IN  ReplaceWord(s8, W_maha, W_maharashtra)

(***************************************************************************)
(* Exact arithmetic on natural numbers beyond the machine integers: a      *)
(* number is the sequence of its digits in base 1000, lowest first.        *)
(***************************************************************************)
RECURSIVE BigOf(_)
BigOf(n) == IF n = 0 THEN << >> ELSE << n % 1000 >> \o BigOf(n \div 1000)

RECURSIVE BigAdd(_, _, _)
BigAdd(a, b, carry) ==
  IF a = << >> /\ b = << >> THEN BigOf(carry)
  ELSE LET da == IF a = << >> THEN 0 ELSE Head(a)
           db == IF b = << >> THEN 0 ELSE Head(b)
           t  == da + db + carry
       IN  << t % 1000 >> \o
           BigAdd(IF a = << >> THEN a ELSE Tail(a),
                  IF b = << >> THEN b ELSE Tail(b), t \div 1000)

\* a times one digit d
RECURSIVE BigMulDigit(_, _, _)
BigMulDigit(a, d, carry) ==
  IF a = << >> THEN BigOf(carry)
  ELSE LET t == Head(a) * d + carry
       IN  << t % 1000 >> \o BigMulDigit(Tail(a), d, t \div 1000)

RECURSIVE BigStrip(_)
BigStrip(a) ==
  IF a # << >> /\ a[Len(a)] = 0 THEN BigStrip(SubSeq(a, 1, Len(a) - 1)) ELSE a

RECURSIVE BigMulRaw(_, _)
BigMulRaw(a, b) ==
  IF b = << >> THEN << >>
  ELSE BigAdd(BigMulDigit(a, Head(b), 0), << 0 >> \o BigMulRaw(a, Tail(b)), 0)

BigMul(a, b) == BigStrip(BigMulRaw(a, b))

RECURSIVE BigLessFrom(_, _, _)
BigLessFrom(a, b, i) ==
  IF i = 0 THEN FALSE
  ELSE IF a[i] # b[i] THEN a[i] < b[i]
  ELSE BigLessFrom(a, b, i - 1)

\* a < b, for numbers without leading zero digits
BigLess(a, b) ==
  IF Len(a) # Len(b) THEN Len(a) < Len(b) ELSE BigLessFrom(a, b, Len(a))

(***************************************************************************)
(* utils/distance.ts                                                       *)
(***************************************************************************)
Abs(x) == IF x < 0 THEN 0 - x ELSE x

\* metres between two points of the meridian lng1 = lng2
haversineDistance(lat1, lng1, lat2, lng2) == Abs(lat2 - lat1)

RECURSIVE DotFrom(_, _, _)
DotFrom(vec1, vec2, i) ==
  IF i > Len(vec1) THEN 0 ELSE vec1[i] * vec2[i] + DotFrom(vec1, vec2, i + 1)

\* the value dot / sqrt(m1 * m2), kept as the three integers
Sim(dot, m1, m2) == [ dot |-> dot, m1 |-> m1, m2 |-> m2 ]

\* the similarity 0
SimZero == Sim(0, 1, 1)

\* cosineSimilarity without the test of the lengths, on the common prefix
cosineSimilarity_Prefix(vec1, vec2) ==
  LET n == IF Len(vec1) < Len(vec2) THEN Len(vec1) ELSE Len(vec2)
      dotProduct == DotFrom(SubSeq(vec1, 1, n), SubSeq(vec2, 1, n), 1)
      mag1 == DotFrom(SubSeq(vec1, 1, n), SubSeq(vec1, 1, n), 1)
      mag2 == DotFrom(SubSeq(vec2, 1, n), SubSeq(vec2, 1, n), 1)
  IN  IF mag1 = 0 \/ mag2 = 0 THEN SimZero ELSE Sim(dotProduct, mag1, mag2)

cosineSimilarity(vec1, vec2) ==
  IF Len(vec1) # Len(vec2) THEN SimZero
  ELSE LET dotProduct == DotFrom(vec1, vec2, 1)
           mag1 == DotFrom(vec1, vec1, 1)
           mag2 == DotFrom(vec2, vec2, 1)
       IN  IF mag1 = 0 \/ mag2 = 0 THEN SimZero ELSE Sim(dotProduct, mag1, mag2)

\* s.dot^2 * p * q as an exact number
SimSquareTimes(s, p, q) ==
  BigMul(BigMul(BigOf(Abs(s.dot)), BigOf(Abs(s.dot))), BigMul(BigOf(p), BigOf(q)))

\* s^2 < t^2 for two similarities: s.dot^2 * t.m1 * t.m2 < t.dot^2 * s.m1 * s.m2
SquareLess(s, t) ==
  BigLess(SimSquareTimes(s, t.m1, t.m2), SimSquareTimes(t, s.m1, s.m2))

\* s > t for two similarities
Greater(s, t) ==
  IF s.dot > 0 /\ t.dot > 0 THEN SquareLess(t, s)
  ELSE IF s.dot > 0 THEN TRUE
  ELSE IF t.dot >= 0 THEN FALSE
  ELSE SquareLess(s, t)

\* the similarity SimNum / SimDen
SIMILARITY_THRESHOLD == Sim(SimNum, SimDen, SimDen)

(***************************************************************************)
(* services/ollamaService.ts                                               *)
(***************************************************************************)
\* the loop of fallbackEmbedding from character k on (k counts from 1, the
\* code's i from 0); every component is 1000 times the code's
RECURSIVE FallbackFrom(_, _, _)
FallbackFrom(normalized, k, embedding) ==
  IF k > Len(normalized) THEN embedding
  ELSE LET code == charCode(normalized[k])
           index == ((code * k) % Len(embedding)) + 1
       IN  FallbackFrom(normalized, k + 1,
                        [ embedding EXCEPT ![index] = @ + code ])

fallbackEmbedding(text) ==
  FallbackFrom(trim(toLowerCase(text)), 1, [ i \in 1..FallbackDim |-> 0 ])

\* the outcomes of the request to Ollama: a response with an embedding, a
\* response without one, a refused connection, a timeout
EmbeddingOutcomes == { "ok", "invalid", "refused", "timeout" }

\* length of the vectors of the embedding model (768 against the fallback's 384)
OllamaDim == 2 * FallbackDim

Pad(v, n) == [ i \in 1..n |-> IF i <= Len(v) THEN v[i] ELSE 0 ]

T_pune_road == << "p","u","n","e"," ","r","o","a","d" >>
T_pune_street == << "p","u","n","e"," ","s","t","r","e","e","t" >>
T_pune_avenue == << "p","u","n","e"," ","a","v","e","n","u","e" >>

\* what the embedding model answers for a text: the cosines are
\*   road/street 0.85 exactly, road/avenue 0.894, street/avenue 0.984
OllamaEmbedding(text) ==
  Pad(IF text = T_pune_road THEN << 1, 0, 0, 0, 0 >>
      ELSE IF text = T_pune_street THEN << 17, 10, 3, 1, 1 >>
      ELSE IF text = T_pune_avenue THEN << 2, 1, 0, 0, 0 >>
      ELSE << 0, 0, 0, 0, 1 >>, OllamaDim)

\* generateEmbedding that falls back for a refused connection only and
\* passes every other error on to its caller
generateEmbedding_Rethrow(text, outcome) ==
  IF outcome = "ok" THEN OllamaEmbedding(text)
  ELSE IF outcome = "refused" THEN fallbackEmbedding(text)
  ELSE << "Error" >>

generateEmbedding(text, outcome) ==
  IF outcome = "ok" THEN OllamaEmbedding(text) ELSE fallbackEmbedding(text)

(***************************************************************************)
(* services/geocodingService.ts                                            *)
(***************************************************************************)
Null == [ null |-> TRUE ]

A_pune_rd == << "P","u","n","e"," ","R","d" >>
A_pune_st == << " ","P","u","n","e"," "," ","S","t","." >>
A_pune_ave == << "P","u","n","e"," ","A","v","e" >>

\* an address in Devanagari script
A_pu == << "U+092A", "U+0941" >>

\* the addresses of the forward requests
Addresses == { A_pune_rd, A_pune_st, A_pune_ave, A_pu }

\* the latitudes of the reverse requests
Latitudes == { 60, 100 }

D_pune_road == << "P","u","n","e"," ","R","o","a","d" >>
D_pune_street == << "P","u","n","e"," ","S","t","r","e","e","t" >>
D_pune_avenue == << "P","u","n","e"," ","A","v","e","n","u","e" >>
D_pune == << "P","u","n","e" >>
D_mh == << "M","H" >>

\* the first element of the provider's answer to /search?q=address, with lat
\* and lon as parseFloat reads them
SearchResponse(address) ==
  IF address = A_pune_rd
    THEN [ lat |-> 0, lon |-> 0, display_name |-> D_pune_road,
           address |-> [ road |-> D_pune_road, city |-> D_pune ] ]
  ELSE IF address = A_pune_st
    THEN [ lat |-> 800, lon |-> 0, display_name |-> D_pune_street,
           address |-> [ road |-> D_pune_street, city |-> D_pune ] ]
  ELSE IF address = A_pune_ave
    THEN [ lat |-> 1000, lon |-> 0, display_name |-> D_pune_avenue,
           address |-> [ street |-> D_pune_avenue, town |-> D_pune,
                         state |-> D_mh ] ]
  ELSE [ lat |-> 5000, lon |-> 0, display_name |-> A_pu,
         address |-> [ village |-> A_pu ] ]

\* the provider's answer to /reverse?lat=..&lon=..
ReverseResponse(lat, lng) ==
  IF lat < 80
    THEN [ display_name |-> D_pune_road,
           address |-> [ road |-> D_pune_road, city |-> D_pune ] ]
    ELSE [ display_name |-> D_pune_street,
           address |-> [ road |-> D_pune_street, city |-> D_pune ] ]

\* the outcomes of a request to the provider: an answer with a place, an
\* answer without one, a failed or timed out request
GeoOutcomes == { "found", "empty", "error" }

\* the value undefined, next to strings that are sequences of characters
Undefined == << "undefined" >>

Get(o, k) == IF k \in DOMAIN o THEN o[k] ELSE Undefined

\* the || of two properties of o
Either(o, k1, k2) == IF Get(o, k1) # Undefined THEN Get(o, k1) ELSE Get(o, k2)

parseAddress(osmAddress) ==
  [ building |-> Either(osmAddress, "building", "house_number"),
    street   |-> Either(osmAddress, "road", "street"),
    area     |-> IF Get(osmAddress, "suburb") # Undefined
                   THEN Get(osmAddress, "suburb")
                   ELSE Either(osmAddress, "neighbourhood", "quarter"),
    city     |-> IF Either(osmAddress, "city", "town") # Undefined
                   THEN Either(osmAddress, "city", "town")
                   ELSE Either(osmAddress, "village", "municipality"),
    state    |-> Get(osmAddress, "state"),
    pincode  |-> Get(osmAddress, "postcode"),
    country  |-> Get(osmAddress, "country") ]

geocode(address, outcome) ==
  IF outcome = "found"
    THEN LET result == SearchResponse(address)
         IN  [ lat |-> result.lat, lng |-> result.lon,
               displayName |-> result.display_name,
               structured |-> parseAddress(result.address),
               source |-> "api" ]
    ELSE Null

reverseGeocode(lat, lng, outcome) ==
  IF outcome = "found"
    THEN LET data == ReverseResponse(lat, lng)
         IN  [ lat |-> lat, lng |-> lng,
               displayName |-> data.display_name,
               structured |-> parseAddress(data.address),
               source |-> "api" ]
    ELSE Null

(***************************************************************************)
(* The values of normalizeAddress and generateEmbedding on the inputs of   *)
(* the model, computed once.                                               *)
(***************************************************************************)
\* the display names that the provider answers to the reverse requests
DisplayNames == { ReverseResponse(lat, 0).display_name : lat \in Latitudes }

Normalized == [ a \in Addresses \cup DisplayNames |-> normalizeAddress(a) ]

Texts == { Normalized[a] : a \in Addresses \cup DisplayNames }

Embedding ==
  [ t \in Texts, outcome \in EmbeddingOutcomes |-> generateEmbedding(t, outcome) ]

\* the embeddings of the model and the similarities the scans compare
Vectors == { Embedding[t, outcome] : t \in Texts, outcome \in EmbeddingOutcomes }

Similarities ==
  { cosineSimilarity(v, w) : v \in Vectors, w \in Vectors }
    \cup { SIMILARITY_THRESHOLD, SimZero }

GreaterTable == [ s \in Similarities, t \in Similarities |-> Greater(s, t) ]

\* s > t for two similarities of the model
SimGreater(s, t) == GreaterTable[s, t]

(***************************************************************************)
(* services/semanticCacheService.ts: the state                             *)
(***************************************************************************)
VARIABLES
  cacheEntries,   \* SemanticCacheService.cacheEntries
  cache,          \* SemanticCacheService.cache: the keys of the NodeCache and their values
  hits,           \* NodeCache.getStats().hits
  misses,         \* NodeCache.getStats().misses
  clock,          \* the number of store() calls so far, the time of new Date()
  removed,        \* the entry that store() shifted out last
  req,            \* the requests in flight, one per slot
  last,           \* the request answered last, with its answer
  call,           \* a call of normalizeAddress and of normalizeAddress on its result
  scan            \* a call of findSimilar on a sequence of entries

vars == << cacheEntries, cache, hits, misses, clock, removed, req, last, call, scan >>

\* normalizeAddress(address), and normalizeAddress of what it returns
NormalizeCall(address) ==
  [ address |-> address,
    normalized |-> normalizeAddress(address),
    renormalized |-> normalizeAddress(normalizeAddress(address)) ]

Slots == 1..NumSlots

\* a slot without a request; geoCalls and stores count the request's calls of
\* the provider and of store(), startedAt is the clock when a forward request
\* came in, kept until its embedding arrives
Idle ==
  [ pc |-> "idle", op |-> "none", address |-> << >>, lat |-> 0, lng |-> 0,
    normalized |-> << >>, queryEmbedding |-> << >>, cachedResult |-> Null,
    result |-> Null, status |-> 0, geoCalls |-> 0, stores |-> 0,
    startedAt |-> 0 ]

\* the requests that have not been answered yet
InFlight == { s \in Slots : req[s].pc # "idle" }

\* a new request takes the lowest slot that has no request in flight, while
\* the stores that this request and the requests in flight may make stay
\* within MaxStores
MayStart(s) ==
  /\ s \notin InFlight
  /\ \A t \in Slots : t < s => t \in InFlight
  /\ clock + Cardinality(InFlight) < MaxStores

Init ==
  /\ cacheEntries = << >>
  /\ cache = << >>
  /\ hits = 0
  /\ misses = 0
  /\ clock = 0
  /\ removed = Null
  /\ req = [ s \in Slots |-> Idle ]
  /\ last = Idle
  /\ call = NormalizeCall(<< >>)
  /\ scan = [ entries |-> << >>, queryEmbedding |-> << >>, bestMatch |-> Null ]

(***************************************************************************)
(* findSimilar, findNearby, store, getStats, clear                         *)
(***************************************************************************)
\* FindSimilarFrom with >= in the place of > SIMILARITY_THRESHOLD
RECURSIVE FindSimilarFrom_AtLeast(_, _, _, _)
FindSimilarFrom_AtLeast(entries, queryEmbedding, i, best) ==
  IF i > Len(entries) THEN best
  ELSE
    LET entry == entries[i]
        similarity == cosineSimilarity(queryEmbedding, entry.embedding)
        taken == [ bestMatch |-> entry, bestScore |-> similarity ]
        next ==
          IF ~SimGreater(SIMILARITY_THRESHOLD, similarity)
            THEN IF best.bestMatch # Null
                   THEN LET distance == haversineDistance(entry.lat, entry.lng,
                                          best.bestMatch.lat, best.bestMatch.lng)
                        IN  IF distance < DISTANCE_THRESHOLD
                               /\ SimGreater(similarity, best.bestScore)
                              THEN taken ELSE best
                   ELSE taken
            ELSE best
    IN  FindSimilarFrom_AtLeast(entries, queryEmbedding, i + 1, next)

\* FindSimilarFrom with || in the place of && in the replacement test
RECURSIVE FindSimilarFrom_Or(_, _, _, _)
FindSimilarFrom_Or(entries, queryEmbedding, i, best) ==
  IF i > Len(entries) THEN best
  ELSE
    LET entry == entries[i]
        similarity == cosineSimilarity(queryEmbedding, entry.embedding)
        taken == [ bestMatch |-> entry, bestScore |-> similarity ]
        next ==
          IF SimGreater(similarity, SIMILARITY_THRESHOLD)
            THEN IF best.bestMatch # Null
                   THEN LET distance == haversineDistance(entry.lat, entry.lng,
                                          best.bestMatch.lat, best.bestMatch.lng)
                        IN  IF distance < DISTANCE_THRESHOLD
                               \/ SimGreater(similarity, best.bestScore)
                              THEN taken ELSE best
                   ELSE taken
            ELSE best
    IN  FindSimilarFrom_Or(entries, queryEmbedding, i + 1, next)

\* FindSimilarFrom with the distance taken to the first candidate of the scan
RECURSIVE FindSimilarFrom_Anchored(_, _, _, _)
FindSimilarFrom_Anchored(entries, queryEmbedding, i, best) ==
  IF i > Len(entries) THEN best
  ELSE
    LET entry == entries[i]
        similarity == cosineSimilarity(queryEmbedding, entry.embedding)
        taken == [ bestMatch |-> entry, bestScore |-> similarity ]
        first == { j \in 1..(i - 1) :
                   SimGreater(cosineSimilarity(queryEmbedding, entries[j].embedding),
                              SIMILARITY_THRESHOLD) }
        anchor == entries[CHOOSE j \in first : \A k \in first : j <= k]
        next ==
          IF SimGreater(similarity, SIMILARITY_THRESHOLD)
            THEN IF best.bestMatch # Null
                   THEN LET distance == haversineDistance(entry.lat, entry.lng,
                                          anchor.lat, anchor.lng)
                        IN  IF distance < DISTANCE_THRESHOLD
                               /\ SimGreater(similarity, best.bestScore)
                              THEN taken ELSE best
                   ELSE taken
            ELSE best
    IN  FindSimilarFrom_Anchored(entries, queryEmbedding, i + 1, next)

\* FindSimilarFrom with >= in the place of > bestScore
RECURSIVE FindSimilarFrom_Latest(_, _, _, _)
FindSimilarFrom_Latest(entries, queryEmbedding, i, best) ==
  IF i > Len(entries) THEN best
  ELSE
    LET entry == entries[i]
        similarity == cosineSimilarity(queryEmbedding, entry.embedding)
        taken == [ bestMatch |-> entry, bestScore |-> similarity ]
        next ==
          IF SimGreater(similarity, SIMILARITY_THRESHOLD)
            THEN IF best.bestMatch # Null
                   THEN LET distance == haversineDistance(entry.lat, entry.lng,
                                          best.bestMatch.lat, best.bestMatch.lng)
                        IN  IF distance < DISTANCE_THRESHOLD
                               /\ ~SimGreater(best.bestScore, similarity)
                              THEN taken ELSE best
                   ELSE taken
            ELSE best
    IN  FindSimilarFrom_Latest(entries, queryEmbedding, i + 1, next)

\* the loop of findSimilar from entry i on; best is bestMatch and bestScore
RECURSIVE FindSimilarFrom(_, _, _, _)
FindSimilarFrom(entries, queryEmbedding, i, best) ==
  IF i > Len(entries) THEN best
  ELSE
    LET entry == entries[i]
        similarity == cosineSimilarity(queryEmbedding, entry.embedding)
        taken == [ bestMatch |-> entry, bestScore |-> similarity ]
        next ==
          IF SimGreater(similarity, SIMILARITY_THRESHOLD)
            THEN IF best.bestMatch # Null
                   THEN LET distance == haversineDistance(entry.lat, entry.lng,
                                          best.bestMatch.lat, best.bestMatch.lng)
                        IN  IF distance < DISTANCE_THRESHOLD
                               /\ SimGreater(similarity, best.bestScore)
                              THEN taken ELSE best
                   ELSE taken
            ELSE best
    IN  FindSimilarFrom(entries, queryEmbedding, i + 1, next)

findSimilar(entries, normalizedAddress, queryEmbedding) ==
  FindSimilarFrom(entries, queryEmbedding, 1,
                  [ bestMatch |-> Null, bestScore |-> SimZero ]).bestMatch

\* FindNearbyFrom with <= in the place of < radiusMeters
RECURSIVE FindNearbyFrom_AtMost(_, _, _, _, _)
FindNearbyFrom_AtMost(entries, lat, lng, radiusMeters, i) ==
  IF i > Len(entries) THEN Null
  ELSE LET entry == entries[i]
           distance == haversineDistance(lat, lng, entry.lat, entry.lng)
       IN  IF distance <= radiusMeters THEN entry
           ELSE FindNearbyFrom_AtMost(entries, lat, lng, radiusMeters, i + 1)

RECURSIVE FindNearbyFrom(_, _, _, _, _)
FindNearbyFrom(entries, lat, lng, radiusMeters, i) ==
  IF i > Len(entries) THEN Null
  ELSE LET entry == entries[i]
           distance == haversineDistance(lat, lng, entry.lat, entry.lng)
       IN  IF distance < radiusMeters THEN entry
           ELSE FindNearbyFrom(entries, lat, lng, radiusMeters, i + 1)

findNearby(entries, lat, lng, radiusMeters) ==
  FindNearbyFrom(entries, lat, lng, radiusMeters, 1)

\* the key of store(): `geo:${normalized}`
Key(normalized) == << "geo:" >> \o normalized

\* NodeCache.set
CacheSet(c, key, value) ==
  [ k \in DOMAIN c \cup { key } |-> IF k = key THEN value ELSE c[k] ]

\* NodeCache.del
CacheDel(c, key) == [ k \in DOMAIN c \ { key } |-> c[k] ]

\* CacheEntry with the normalized text in the place of the address
CacheEntry_Normalized(address, normalized, result, embedding, timestamp) ==
  [ address |-> normalized, normalized |-> normalized,
    lat |-> result.lat, lng |-> result.lng,
    structured |-> result.structured, displayName |-> result.displayName,
    embedding |-> embedding, timestamp |-> timestamp ]

\* the entry that store() builds
CacheEntry(address, normalized, result, embedding, timestamp) ==
  [ address |-> address, normalized |-> normalized,
    lat |-> result.lat, lng |-> result.lng,
    structured |-> result.structured, displayName |-> result.displayName,
    embedding |-> embedding, timestamp |-> timestamp ]

\* StoredEntries without the shift
StoredEntries_NoShift(entries, cacheEntry) == Append(entries, cacheEntry)

\* StoredEntries with pop in the place of shift
StoredEntries_Pop(entries, cacheEntry) ==
  LET pushed == Append(entries, cacheEntry)
  IN  IF Len(pushed) > Capacity THEN SubSeq(pushed, 1, Capacity) ELSE pushed

\* StoredEntries that overwrites the entry of the same normalized key
StoredEntries_Upsert(entries, cacheEntry) ==
  LET same == { i \in DOMAIN entries : entries[i].normalized = cacheEntry.normalized }
      pushed == Append(entries, cacheEntry)
  IN  IF same # { }
        THEN [ entries EXCEPT ![CHOOSE i \in same : TRUE] = cacheEntry ]
        ELSE IF Len(pushed) > Capacity THEN Tail(pushed) ELSE pushed

\* StoredEntries that shifts out every entry of the removed entry's key
StoredEntries_ShiftKey(entries, cacheEntry) ==
  LET pushed == Append(entries, cacheEntry)
  IN  IF Len(pushed) > Capacity
        THEN SelectSeq(Tail(pushed),
                       LAMBDA e : e.normalized # Head(pushed).normalized)
        ELSE pushed

\* cacheEntries after store(): push, then shift beyond the capacity
StoredEntries(entries, cacheEntry) ==
  LET pushed == Append(entries, cacheEntry)
  IN  IF Len(pushed) > Capacity THEN Tail(pushed) ELSE pushed

\* the entry that store() shifts out, if it does
Shifted(entries, cacheEntry, before) ==
  LET pushed == Append(entries, cacheEntry)
  IN  IF Len(pushed) > Capacity THEN Head(pushed) ELSE before

\* StoredCache without the del of the shifted entry's key
StoredCache_NoDel(c, entries, cacheEntry) ==
  CacheSet(c, Key(cacheEntry.normalized), cacheEntry)

\* the NodeCache after store(): set, then del of the shifted entry's key
StoredCache(c, entries, cacheEntry) ==
  LET set == CacheSet(c, Key(cacheEntry.normalized), cacheEntry)
      pushed == Append(entries, cacheEntry)
  IN  IF Len(pushed) > Capacity
        THEN CacheDel(set, Key(Head(pushed).normalized))
        ELSE set

store(address, normalized, result, embedding) ==
  LET cacheEntry == CacheEntry(address, normalized, result, embedding, clock + 1)
  IN  /\ cacheEntries' = StoredEntries(cacheEntries, cacheEntry)
      /\ cache' = StoredCache(cache, cacheEntries, cacheEntry)
      /\ removed' = Shifted(cacheEntries, cacheEntry, removed)
      /\ clock' = clock + 1

getStats ==
  [ entries |-> Len(cacheEntries), keys |-> Cardinality(DOMAIN cache),
    hits |-> hits, misses |-> misses ]

\* FromCache that passes the result on as the provider's
FromCache_Api(entry) ==
  [ lat |-> entry.lat, lng |-> entry.lng, displayName |-> entry.displayName,
    structured |-> entry.structured, source |-> "api" ]

\* the result returned on a cache hit
FromCache(entry) ==
  [ lat |-> entry.lat, lng |-> entry.lng, displayName |-> entry.displayName,
    structured |-> entry.structured, source |-> "cache" ]

\* Status that answers a missing result as an internal error
Status_Error(result) == IF result = Null THEN 500 ELSE 200

\* the status of the route handlers of server.ts for a returned result
Status(result) == IF result = Null THEN 404 ELSE 200

(***************************************************************************)
(* The requests.  POST /api/geocode runs geocodeWithCache, POST            *)
(* /api/reverse-geocode runs reverseGeocodeWithCache; the handler answers  *)
(* 200 with the result or 404 without one.                                 *)
(***************************************************************************)
\* the request is answered
Done(r, result) ==
  [ r EXCEPT !.pc = "done", !.result = result, !.status = Status(result) ]

\* the request of slot s goes on as r; an answered request leaves its slot
Continue(s, r) ==
  IF r.pc = "done"
    THEN req' = [ req EXCEPT ![s] = Idle ] /\ last' = r
    ELSE req' = [ req EXCEPT ![s] = r ] /\ last' = last

\* geocodeWithCache up to the request to Ollama
StartGeocode(s, address) ==
  /\ MayStart(s)
  /\ Continue(s, [ Idle EXCEPT !.pc = "embedding", !.op = "geocode",
                                !.address = address,
                                !.normalized = Normalized[address],
                                !.startedAt = clock ])
  /\ UNCHANGED << cacheEntries, cache, hits, misses, clock, removed, call, scan >>

\* EmbeddingDone that looks the key up in the NodeCache before the scan
EmbeddingDone_KeyLookup(s, outcome) ==
  /\ req[s].pc = "embedding"
  /\ LET r == req[s]
         queryEmbedding == Embedding[r.normalized, outcome]
         cachedResult == findSimilar(cacheEntries, r.normalized, queryEmbedding)
         found == [ r EXCEPT !.queryEmbedding = queryEmbedding,
                             !.cachedResult = cachedResult,
                             !.startedAt = 0 ]
     IN  /\ Continue(s, IF cachedResult # Null
                          THEN Done(found, FromCache(cachedResult))
                          ELSE [ found EXCEPT !.pc = "geocoding",
                                              !.geoCalls = @ + 1 ])
         /\ IF Key(r.normalized) \in DOMAIN cache
              THEN hits' = hits + 1 /\ misses' = misses
              ELSE hits' = hits /\ misses' = misses + 1
  /\ UNCHANGED << cacheEntries, cache, clock, removed, call, scan >>

\* the embedding arrives: findSimilar, then the hit is returned or the
\* provider is asked
EmbeddingDone(s, outcome) ==
  /\ req[s].pc = "embedding"
  /\ LET r == req[s]
         queryEmbedding == Embedding[r.normalized, outcome]
         cachedResult == findSimilar(cacheEntries, r.normalized, queryEmbedding)
         found == [ r EXCEPT !.queryEmbedding = queryEmbedding,
                             !.cachedResult = cachedResult,
                             !.startedAt = 0 ]
     IN  Continue(s, IF cachedResult # Null
                       THEN Done(found, FromCache(cachedResult))
                       ELSE [ found EXCEPT !.pc = "geocoding",
                                           !.geoCalls = @ + 1 ])
  /\ UNCHANGED << cacheEntries, cache, hits, misses, clock, removed, call, scan >>

\* GeocodeDone that goes on only when no other request waits for the network
GeocodeDone_Locked(s, outcome) ==
  /\ req[s].pc = "geocoding"
  /\ \A t \in Slots \ { s } : req[t].pc = "idle"
  /\ LET r == req[s]
         result == geocode(r.address, outcome)
     IN  IF result # Null
           THEN /\ store(r.address, r.normalized, result, r.queryEmbedding)
                /\ Continue(s, Done([ r EXCEPT !.stores = @ + 1 ], result))
           ELSE /\ Continue(s, Done(r, result))
                /\ UNCHANGED << cacheEntries, cache, clock, removed >>
  /\ UNCHANGED << hits, misses, call, scan >>

\* the provider answers: a result is stored and returned
GeocodeDone(s, outcome) ==
  /\ req[s].pc = "geocoding"
  /\ LET r == req[s]
         result == geocode(r.address, outcome)
     IN  IF result # Null
           THEN /\ store(r.address, r.normalized, result, r.queryEmbedding)
                /\ Continue(s, Done([ r EXCEPT !.stores = @ + 1 ], result))
           ELSE /\ Continue(s, Done(r, result))
                /\ UNCHANGED << cacheEntries, cache, clock, removed >>
  /\ UNCHANGED << hits, misses, call, scan >>

\* StartReverse that moves the entry it returns to the end of the sequence
StartReverse_Promote(s, lat, lng) ==
  /\ MayStart(s)
  /\ LET r == [ Idle EXCEPT !.op = "reverse", !.lat = lat, !.lng = lng ]
         nearby == findNearby(cacheEntries, lat, lng, REVERSE_RADIUS)
         found == [ r EXCEPT !.cachedResult = nearby ]
     IN  /\ Continue(s, IF nearby # Null
                          THEN Done(found, FromCache(nearby))
                          ELSE [ found EXCEPT !.pc = "reverseGeocoding",
                                              !.geoCalls = @ + 1 ])
         /\ cacheEntries' =
              IF nearby # Null
                THEN Append(SelectSeq(cacheEntries, LAMBDA e : e # nearby), nearby)
                ELSE cacheEntries
  /\ UNCHANGED << cache, hits, misses, clock, removed, call, scan >>

\* reverseGeocodeWithCache up to its return on a hit or the request to the
\* provider
StartReverse(s, lat, lng) ==
  /\ MayStart(s)
  /\ LET r == [ Idle EXCEPT !.op = "reverse", !.lat = lat, !.lng = lng ]
         nearby == findNearby(cacheEntries, lat, lng, REVERSE_RADIUS)
         found == [ r EXCEPT !.cachedResult = nearby ]
     IN  Continue(s, IF nearby # Null
                       THEN Done(found, FromCache(nearby))
                       ELSE [ found EXCEPT !.pc = "reverseGeocoding",
                                           !.geoCalls = @ + 1 ])
  /\ UNCHANGED << cacheEntries, cache, hits, misses, clock, removed, call, scan >>

\* the provider answers the reverse request: without a result the request
\* ends, with one Ollama is asked for the embedding of its display name
ReverseGeocodeDone(s, outcome) ==
  /\ req[s].pc = "reverseGeocoding"
  /\ LET r == req[s]
         result == reverseGeocode(r.lat, r.lng, outcome)
     IN  Continue(s, IF result # Null
                       THEN [ r EXCEPT !.pc = "reverseEmbedding",
                                       !.result = result,
                                       !.normalized = Normalized[result.displayName] ]
                       ELSE Done(r, result))
  /\ UNCHANGED << cacheEntries, cache, hits, misses, clock, removed, call, scan >>

\* the embedding of the display name arrives: store, return
ReverseEmbeddingDone(s, outcome) ==
  /\ req[s].pc = "reverseEmbedding"
  /\ LET r == req[s]
         embedding == Embedding[r.normalized, outcome]
     IN  /\ store(r.result.displayName, r.normalized, r.result, embedding)
         /\ Continue(s, Done([ r EXCEPT !.queryEmbedding = embedding,
                                         !.stores = @ + 1 ], r.result))
  /\ UNCHANGED << hits, misses, call, scan >>

\* clear that flushes the keyed store and keeps the entry sequence
clear_KeysOnly ==
  /\ cacheEntries # << >> \/ DOMAIN cache # { }
  /\ cache' = << >>
  /\ UNCHANGED << cacheEntries, hits, misses, clock, removed, req, last, call, scan >>

\* clear that empties the sequence and leaves the NodeCache as it is
clear_EntriesOnly ==
  /\ cacheEntries # << >> \/ DOMAIN cache # { }
  /\ cacheEntries' = << >>
  /\ UNCHANGED << cache, hits, misses, clock, removed, req, last, call, scan >>

\* POST /api/cache/clear
clear ==
  /\ cacheEntries # << >> \/ DOMAIN cache # { }
  /\ cache' = << >>
  /\ cacheEntries' = << >>
  /\ UNCHANGED << hits, misses, clock, removed, req, last, call, scan >>

Next ==
  \/ \E s \in Slots, address \in Addresses : StartGeocode(s, address)
  \/ \E s \in Slots, outcome \in EmbeddingOutcomes : EmbeddingDone(s, outcome)
  \/ \E s \in Slots, outcome \in GeoOutcomes : GeocodeDone(s, outcome)
  \/ \E s \in Slots, lat \in Latitudes : StartReverse(s, lat, 0)
  \/ \E s \in Slots, outcome \in GeoOutcomes : ReverseGeocodeDone(s, outcome)
  \/ \E s \in Slots, outcome \in EmbeddingOutcomes : ReverseEmbeddingDone(s, outcome)
  \/ clear

Spec == Init /\ [][Next]_vars

\* the request to Ollama or to the provider that the request of slot s waits
\* for comes back, with an answer, an error or its timeout
Returns(s) ==
  \/ \E outcome \in EmbeddingOutcomes : EmbeddingDone(s, outcome)
  \/ \E outcome \in GeoOutcomes : GeocodeDone(s, outcome)
  \/ \E outcome \in GeoOutcomes : ReverseGeocodeDone(s, outcome)
  \/ \E outcome \in EmbeddingOutcomes : ReverseEmbeddingDone(s, outcome)

\* the requests for one address and one place, and clear
NextLive ==
  \/ \E s \in Slots : StartGeocode(s, A_pune_rd)
  \/ \E s \in Slots : StartReverse(s, 60, 0)
  \/ \E s \in Slots : Returns(s)
  \/ clear

\* every axios call has a timeout (10000 ms, 5000 ms), so what a request
\* waits for does come back
SpecLive == Init /\ [][NextLive]_vars /\ \A s \in Slots : WF_vars(Returns(s))

(***************************************************************************)
(* The TTL of the NodeCache (stdTTL: CACHE_TTL).  Time is not measured:    *)
(* any time may pass between two steps, so at any moment the keys set at   *)
(* or before some store() may have passed their TTL.                       *)
(***************************************************************************)
\* Expire that takes the entries of the expired keys out of the sequence too
Expire_Prune(t) ==
  /\ \E k \in DOMAIN cache : cache[k].timestamp <= t
  /\ cache' = [ k \in { j \in DOMAIN cache : cache[j].timestamp > t } |-> cache[k] ]
  /\ cacheEntries' = SelectSeq(cacheEntries, LAMBDA e : e.timestamp > t)
  /\ UNCHANGED << hits, misses, clock, removed, req, last, call, scan >>

\* the NodeCache drops the keys that were set by store() number t or before
Expire(t) ==
  /\ \E k \in DOMAIN cache : cache[k].timestamp <= t
  /\ cache' = [ k \in { j \in DOMAIN cache : cache[j].timestamp > t } |-> cache[k] ]
  /\ UNCHANGED << cacheEntries, hits, misses, clock, removed, req, last, call, scan >>

NextTTL ==
  \/ Next
  \/ \E t \in 1..MaxStores : Expire(t)

SpecTTL == Init /\ [][NextTTL]_vars

(***************************************************************************)
(* The route handlers of server.ts with the request bodies a client may    *)
(* send.  A property of the body is a value of JSON: a string, a number,   *)
(* or nothing.                                                             *)
(***************************************************************************)
JString(s) == [ type |-> "string", string |-> s, number |-> 0 ]
JNumber(n) == [ type |-> "number", string |-> << >>, number |-> n ]
JUndefined == [ type |-> "undefined", string |-> << >>, number |-> 0 ]

\* !v
Falsy(v) ==
  \/ v.type = "undefined"
  \/ v.type = "string" /\ v.string = << >>
  \/ v.type = "number" /\ v.number = 0

\* the request answered with res.status(400)
BadRequest(op) == [ Idle EXCEPT !.pc = "done", !.op = op, !.status = 400 ]

\* the values of address in the body of POST /api/geocode
GeocodeBodies == { JUndefined, JNumber(42), JString(<< >>), JString(A_pune_rd) }

\* the values of lat in the body of POST /api/reverse-geocode: 60 m and
\* 10100000 m of arc (90.8 degrees) north of the equator, the string "60",
\* nothing
ReverseBodies ==
  { JNumber(60), JNumber(10100000), JString(<< "6", "0" >>), JUndefined }

\* POST /api/geocode
PostGeocode(s, address) ==
  IF Falsy(address) \/ address.type # "string"
    THEN /\ MayStart(s)
         /\ Continue(s, BadRequest("geocode"))
         /\ UNCHANGED << cacheEntries, cache, hits, misses, clock, removed, call, scan >>
    ELSE StartGeocode(s, address.string)

\* POST /api/reverse-geocode
PostReverse(s, lat, lng) ==
  IF lat.type # "number" \/ lng.type # "number"
    THEN /\ MayStart(s)
         /\ Continue(s, BadRequest("reverse"))
         /\ UNCHANGED << cacheEntries, cache, hits, misses, clock, removed, call, scan >>
    ELSE StartReverse(s, lat.number, lng.number)

NextBoundary ==
  \/ \E s \in Slots, address \in GeocodeBodies : PostGeocode(s, address)
  \/ \E s \in Slots, lat \in ReverseBodies : PostReverse(s, lat, JNumber(0))
  \/ \E s \in Slots, outcome \in EmbeddingOutcomes : EmbeddingDone(s, outcome)
  \/ \E s \in Slots, outcome \in GeoOutcomes : GeocodeDone(s, outcome)
  \/ \E s \in Slots, outcome \in GeoOutcomes : ReverseGeocodeDone(s, outcome)
  \/ \E s \in Slots, outcome \in EmbeddingOutcomes : ReverseEmbeddingDone(s, outcome)

SpecBoundary == Init /\ [][NextBoundary]_vars

(***************************************************************************)
(* findSimilar on its own: entries as store() builds them are pushed, fewer *)
(* than the 1000 beyond which store() shifts, and the sequence is scanned   *)
(* for the embedding of a text.                                             *)
(***************************************************************************)
\* the normalized addresses of the entries and of the queries
ScanTexts == { T_pune_road, T_pune_street, T_pune_avenue }

\* the latitudes the provider gave for the entries
ScanLatitudes == { 0, 400, 800 }

\* the entry that store() builds for text, resolved to lat, with Ollama's embedding
ScanEntry(text, lat, timestamp) ==
  CacheEntry(text, text,
             [ lat |-> lat, lng |-> 0, displayName |-> text,
               structured |-> parseAddress([ road |-> text ]), source |-> "api" ],
             OllamaEmbedding(text), timestamp)

\* this.cacheEntries.push(cacheEntry)
Push(text, lat) ==
  /\ Len(scan.entries) < MaxEntries
  /\ scan' = [ entries |-> Append(scan.entries,
                                   ScanEntry(text, lat, Len(scan.entries) + 1)),
               queryEmbedding |-> << >>, bestMatch |-> Null ]
  /\ UNCHANGED << cacheEntries, cache, hits, misses, clock, removed, req, last, call >>

\* findSimilar(text, queryEmbedding) on the entries pushed
Query(text) ==
  /\ scan.entries # << >>
  /\ scan' = [ scan EXCEPT !.queryEmbedding = OllamaEmbedding(text),
                           !.bestMatch = findSimilar(scan.entries, text,
                                                     OllamaEmbedding(text)) ]
  /\ UNCHANGED << cacheEntries, cache, hits, misses, clock, removed, req, last, call >>

NextScan ==
  \/ \E text \in ScanTexts, lat \in ScanLatitudes : Push(text, lat)
  \/ \E text \in ScanTexts : Query(text)

SpecScan == Init /\ [][NextScan]_vars

(***************************************************************************)
(* normalizeAddress on its own: a caller types an address one character at *)
(* a time and normalizes what it has typed.                                *)
(***************************************************************************)
\* the characters a caller types
InputChars == { "a", " ", ",", "S", "t" }

\* the caller types c: normalizeAddress runs on the longer address
Type(c) ==
  /\ Len(call.address) < MaxAddressLen
  /\ call' = NormalizeCall(Append(call.address, c))
  /\ UNCHANGED << cacheEntries, cache, hits, misses, clock, removed, req, last, scan >>

NextNormalize == \E c \in InputChars : Type(c)

SpecNormalize == Init /\ [][NextNormalize]_vars

(***************************************************************************)
(* Properties.                                                             *)
(***************************************************************************)
\* the similarity of entry to the query exceeds SIMILARITY_THRESHOLD
IsCandidate(entry, queryEmbedding) ==
  SimGreater(cosineSimilarity(queryEmbedding, entry.embedding), SIMILARITY_THRESHOLD)

\* the candidates among entries, in insertion order
CandidateSeq(entries, queryEmbedding) ==
  SelectSeq(entries, LAMBDA e : IsCandidate(e, queryEmbedding))

\* the similarity of entry to the query
SimOf(entry, queryEmbedding) == cosineSimilarity(queryEmbedding, entry.embedding)

\* metres between two entries
Apart(e1, e2) == haversineDistance(e1.lat, e1.lng, e2.lat, e2.lng)

\* the positions of the entries closer than radius to (lat, lng)
Near(entries, lat, lng, radius) ==
  { i \in DOMAIN entries :
      haversineDistance(lat, lng, entries[i].lat, entries[i].lng) < radius }

Least(S) == CHOOSE i \in S : \A j \in S : i <= j

\* this step answers the request of slot s
Answers(s) == req[s].pc # "idle" /\ req'[s].pc = "idle"

\* C1: the entry sequence, and the entries count of getStats, never exceed the
\* capacity.
C1_Capacity ==
  /\ Len(cacheEntries) <= Capacity
  /\ getStats.entries <= Capacity

\* C1 witness: the sequence is full after store() has shifted an entry out.
C1_Witness == removed # Null /\ Len(cacheEntries) = Capacity

\* C2: a store() on a full sequence removes exactly the entry at index 0 and
\* appends the new entry last, any other store() only appends; so the sequence
\* always holds the most recent insertions in their insertion order.
C2_FifoEviction ==
  /\ [][ clock' # clock =>
           /\ Len(cacheEntries') >= 1
           /\ LET e == cacheEntries'[Len(cacheEntries')]
              IN  /\ e.timestamp = clock'
                  /\ IF Len(cacheEntries) = Capacity
                       THEN /\ cacheEntries' = Append(Tail(cacheEntries), e)
                            /\ removed' = Head(cacheEntries)
                       ELSE /\ cacheEntries' = Append(cacheEntries, e)
                            /\ removed' = removed ]_vars
  /\ [](\A i \in DOMAIN cacheEntries :
          cacheEntries[i].timestamp = clock - Len(cacheEntries) + i)

\* C2 witness: after Capacity + 1 insertions the first one is the entry shifted
\* out and the later ones are all there.
C2_Witness ==
  /\ clock = Capacity + 1
  /\ removed # Null /\ removed.timestamp = 1
  /\ Len(cacheEntries) = Capacity
  /\ \A i \in DOMAIN cacheEntries : cacheEntries[i].timestamp = i + 1

ProbeRadii == { 40, REVERSE_RADIUS, 800 }

\* C5: findNearby returns the earliest entry strictly closer than the radius
\* and none when there is no such entry; a reverse request is answered from
\* the cache exactly when an entry is strictly closer than 100 m, and then with
\* the earliest such entry.
C5_Nearby ==
  /\ [](\A lat \in Latitudes, radius \in ProbeRadii :
          LET near == Near(cacheEntries, lat, 0, radius)
              m == findNearby(cacheEntries, lat, 0, radius)
          IN  IF near = { } THEN m = Null ELSE m = cacheEntries[Least(near)])
  /\ [][ \A s \in Slots, lat \in Latitudes :
           StartReverse(s, lat, 0) =>
             LET near == Near(cacheEntries, lat, 0, 100)
             IN  IF near = { }
                   THEN req'[s].pc = "reverseGeocoding"
                   ELSE /\ req'[s].pc = "idle"
                        /\ last'.cachedResult = cacheEntries[Least(near)] ]_vars

\* C5 witness: a reverse request 60 m from an entry was answered with it, and
\* a reverse request exactly 100 m from that entry waits for the provider.
C5_Witness ==
  /\ last.pc = "done" /\ last.op = "reverse" /\ last.lat = 60
  /\ last.cachedResult # Null /\ last.cachedResult.lat = 0
  /\ \E s \in Slots :
       /\ req[s].pc = "reverseGeocoding" /\ req[s].lat = 100
       /\ Near(cacheEntries, 100, 0, 100) = { }
       /\ \E i \in DOMAIN cacheEntries : cacheEntries[i].lat = 0

\* C6: a request answered from the cache has asked the provider nothing and
\* stored nothing, the step that answers it leaves the entry sequence and the
\* keyed store as they are, and its result is the matched entry's coordinates,
\* display name and structured address with source 'cache'; a result of the
\* provider has source 'api'.
C6_HitFrame ==
  /\ [](last.pc = "done" =>
          /\ last.cachedResult # Null =>
               /\ last.geoCalls = 0 /\ last.stores = 0
               /\ last.result =
                    [ lat |-> last.cachedResult.lat, lng |-> last.cachedResult.lng,
                      displayName |-> last.cachedResult.displayName,
                      structured |-> last.cachedResult.structured,
                      source |-> "cache" ]
          /\ (last.cachedResult = Null /\ last.result # Null) =>
               /\ last.result.source = "api" /\ last.geoCalls = 1)
  /\ [][ ( /\ last'.cachedResult # Null
           /\ last' # last \/ \E s \in Slots : Answers(s) /\ req[s].pc = "embedding" )
         => UNCHANGED << cacheEntries, cache, clock >> ]_vars

\* C6 witness: a request has been answered from the cache.
C6_Witness ==
  /\ last.pc = "done" /\ last.cachedResult # Null
  /\ last.result.source = "cache" /\ last.result.lat = last.cachedResult.lat
  /\ cacheEntries # << >>

\* C7: every store() is made by a request that missed and got a result from
\* the provider, once per request, and the entry has the request's address
\* (the provider's display name on the reverse path), its normalized form, the
\* provider's coordinates and an embedding of the normalized text; a request
\* that hit or got no result stores nothing.
C7_InsertOnMiss ==
  /\ [](last.pc = "done" =>
          /\ last.stores \in { 0, 1 }
          /\ last.stores = 1 <=> (last.cachedResult = Null /\ last.result # Null))
  /\ [][ clock' # clock =>
           /\ clock' = clock + 1
           /\ Len(cacheEntries') >= 1
           /\ \E s \in Slots :
                /\ Answers(s)
                /\ req[s].pc \in { "geocoding", "reverseEmbedding" }
                /\ last'.stores = 1 /\ last'.geoCalls = 1
                /\ last'.cachedResult = Null /\ last'.result # Null
                /\ LET e == cacheEntries'[Len(cacheEntries')]
                   IN  /\ e.address = IF req[s].op = "geocode"
                                        THEN req[s].address
                                        ELSE last'.result.displayName
                       /\ e.normalized = normalizeAddress(e.address)
                       /\ e.lat = last'.result.lat /\ e.lng = last'.result.lng
                       /\ e.displayName = last'.result.displayName
                       /\ e.embedding = last'.queryEmbedding
                       /\ \E outcome \in EmbeddingOutcomes :
                            e.embedding = generateEmbedding(e.normalized, outcome) ]_vars

\* C7 witness: a forward request that missed has stored its entry, whose
\* address is the raw one and differs from the normalized text.
C7_Witness ==
  /\ last.pc = "done" /\ last.op = "geocode" /\ last.stores = 1
  /\ cacheEntries # << >>
  /\ LET e == cacheEntries[Len(cacheEntries)]
     IN  /\ e.timestamp = clock
         /\ e.address = last.address
         /\ e.address # e.normalized

\* C8: a request whose provider call fails or finds nothing ends with the miss
\* outcome, answered 404, and its last step leaves the entry sequence and the
\* keyed store as they are.
C8_ProviderFailure ==
  /\ [](last.pc = "done" =>
          /\ last.status \in { 200, 404 }
          /\ last.result = Null =>
               /\ last.status = 404 /\ last.stores = 0
               /\ last.cachedResult = Null /\ last.geoCalls = 1)
  /\ [][ \A s \in Slots, outcome \in { "empty", "error" } :
           (GeocodeDone(s, outcome) \/ ReverseGeocodeDone(s, outcome)) =>
             /\ last'.result = Null /\ last'.status = 404
             /\ UNCHANGED << cacheEntries, cache, clock >> ]_vars

\* C8 witness: a request ended with the miss outcome while entries are stored.
C8_Witness ==
  /\ last.pc = "done" /\ last.result = Null /\ last.status = 404
  /\ last.geoCalls = 1
  /\ cacheEntries # << >>

\* C9: a forward request that comes in when an entry of the same address is
\* in the sequence (stored by a request answered earlier), and whose embedding
\* is that entry's, is answered from the cache without asking the provider,
\* unless the entry was cleared or shifted out before the embedding arrived.
C9_RepeatIsHit ==
  [][ \A s \in Slots :
        (req[s].pc = "embedding" /\ req'[s].pc # "embedding") =>
          LET r == IF req'[s].pc = "idle" THEN last' ELSE req'[s]
          IN  (\E i \in DOMAIN cacheEntries :
                 /\ cacheEntries[i].address = req[s].address
                 /\ cacheEntries[i].embedding = r.queryEmbedding
                 /\ cacheEntries[i].timestamp <= req[s].startedAt)
                => /\ r.pc = "done"
                   /\ r.result.source = "cache"
                   /\ r.geoCalls = 0 ]_vars

\* C10: a forward request is answered from the cache only with an entry that
\* is a candidate and lies under DISTANCE_THRESHOLD from the place of the
\* requested address.
C10_HitWithinDistance ==
  (last.pc = "done" /\ last.op = "geocode" /\ last.cachedResult # Null) =>
    /\ IsCandidate(last.cachedResult, last.queryEmbedding)
    /\ haversineDistance(SearchResponse(last.address).lat,
                         SearchResponse(last.address).lon,
                         last.cachedResult.lat, last.cachedResult.lng)
         < DISTANCE_THRESHOLD

\* C11: all entries of the sequence have embeddings of the same length,
\* whether an embedding came from Ollama or from fallbackEmbedding.
C11_SameDimension ==
  \A i, j \in DOMAIN cacheEntries :
    Len(cacheEntries[i].embedding) = Len(cacheEntries[j].embedding)

\* every component of v is 0
IsZero(v) == \A i \in DOMAIN v : v[i] = 0

\* v and w differ in length, or one of them is a zero vector
Degenerate(v, w) == Len(v) # Len(w) \/ IsZero(v) \/ IsZero(w)

\* C12: for a query and an entry whose embeddings differ in length, or one of
\* which is the zero vector, cosineSimilarity is 0, the entry is no candidate
\* and is not returned; findSimilar returns what it returns on the sequence
\* without such entries.
C12_DegenerateIsZero ==
  \A q \in Vectors :
    LET m == findSimilar(cacheEntries, << >>, q)
    IN  /\ \A i \in DOMAIN cacheEntries :
             Degenerate(q, cacheEntries[i].embedding) =>
               /\ cosineSimilarity(q, cacheEntries[i].embedding) = SimZero
               /\ ~IsCandidate(cacheEntries[i], q)
               /\ m # cacheEntries[i]
        /\ m = findSimilar(SelectSeq(cacheEntries,
                                     LAMBDA e : ~Degenerate(q, e.embedding)),
                           << >>, q)

\* C12 witness: a forward request was answered with the second entry after the
\* scan passed a first entry that is a zero vector of another length than the
\* query's.
C12_Witness ==
  /\ last.pc = "done" /\ last.op = "geocode"
  /\ Len(cacheEntries) = 2
  /\ last.cachedResult = cacheEntries[2]
  /\ IsZero(cacheEntries[1].embedding)
  /\ Len(cacheEntries[1].embedding) # Len(last.queryEmbedding)

\* C13: right after clear the entry sequence is empty, the keyed store has no
\* keys, getStats reports 0 entries and 0 keys and every findSimilar and
\* findNearby returns none; an entry comes into the sequence only by a new
\* insertion and a request is answered only with an entry that is in the
\* sequence, so no entry stored before a clear is returned after it.
C13_ClearEmpties ==
  /\ [][ clear =>
           /\ cacheEntries' = << >>
           /\ DOMAIN cache' = { }
           /\ getStats'.entries = 0 /\ getStats'.keys = 0
           /\ \A q \in Vectors : findSimilar(cacheEntries', << >>, q) = Null
           /\ \A lat \in Latitudes, radius \in ProbeRadii :
                findNearby(cacheEntries', lat, 0, radius) = Null ]_vars
  /\ [][ \A i \in DOMAIN cacheEntries' :
           \/ \E j \in DOMAIN cacheEntries : cacheEntries[j] = cacheEntries'[i]
           \/ /\ clock' = clock + 1
              /\ i = Len(cacheEntries')
              /\ cacheEntries'[i].timestamp = clock' ]_vars
  /\ [][ \A s \in Slots :
           (Answers(s) /\ last'.cachedResult # Null) =>
             \E j \in DOMAIN cacheEntries : cacheEntries[j] = last'.cachedResult ]_vars

\* C13 witness: the store is empty after an insertion and a clear, and a
\* request for the address stored last, with the same embedding, has missed
\* and waits for the provider.
C13_Witness ==
  /\ clock >= 1 /\ cacheEntries = << >> /\ DOMAIN cache = { }
  /\ last.pc = "done" /\ last.op = "geocode" /\ last.stores = 1
  /\ ~IsZero(last.queryEmbedding)
  /\ \E s \in Slots :
       /\ req[s].pc = "geocoding"
       /\ req[s].address = last.address
       /\ req[s].queryEmbedding = last.queryEmbedding

C15_Idempotent == call.renormalized = call.normalized

C17_EntriesImmutable ==
  [][ \/ cacheEntries' = cacheEntries
      \/ cacheEntries' = << >> /\ clock' = clock
      \/ /\ clock' = clock + 1
         /\ Len(cacheEntries') >= 1
         /\ LET new == cacheEntries'[Len(cacheEntries')]
                kept == IF Len(cacheEntries) = Capacity
                          THEN Tail(cacheEntries) ELSE cacheEntries
            IN  /\ cacheEntries' = Append(kept, new)
                /\ new.timestamp = clock'
                /\ \A i \in DOMAIN kept :
                     /\ kept[i].timestamp < new.timestamp
                     /\ cacheEntries'[i].normalized = kept[i].normalized
                     /\ cacheEntries'[i].lat = kept[i].lat
                     /\ cacheEntries'[i].lng = kept[i].lng
                     /\ cacheEntries'[i].embedding = kept[i].embedding ]_vars

\* C17 witness: the same address was resolved again and the sequence holds
\* the entry of the first resolution, as it was stored, before the new one.
C17_Witness ==
  /\ Len(cacheEntries) = 2
  /\ cacheEntries[1].address = cacheEntries[2].address
  /\ cacheEntries[1].normalized = cacheEntries[2].normalized
  /\ cacheEntries[1].timestamp < cacheEntries[2].timestamp
  /\ cacheEntries[1].embedding # cacheEntries[2].embedding
  /\ cacheEntries[1].embedding
       \in { generateEmbedding(cacheEntries[1].normalized, outcome) :
               outcome \in EmbeddingOutcomes }

\* lat is in [-90, 90] degrees; a quarter of the meridian of radius 6371000 m
\* is 10007543 m long
LatInRange(lat) == -10007543 <= lat /\ lat <= 10007543

\* the request r was let in by its route handler with a proper body
WellFormed(r) ==
  /\ r.op = "geocode" => r.address # << >>
  /\ r.op = "reverse" => LatInRange(r.lat) /\ r.lng = 0

\* C18: a request with a malformed body (address missing or no string,
\* latitude or longitude no number or out of range) is answered 400 and
\* reaches neither the cache nor a provider: every request in flight and every
\* request answered otherwise than 400 is well formed, a request answered 400
\* has scanned and asked nothing, and no entry has a latitude out of range.
C18_RejectedAtBoundary ==
  /\ \A s \in InFlight : WellFormed(req[s])
  /\ (last.pc = "done" /\ last.status # 400) => WellFormed(last)
  /\ (last.pc = "done" /\ last.status = 400) =>
       /\ last.geoCalls = 0 /\ last.stores = 0
       /\ last.cachedResult = Null /\ last.result = Null
  /\ \A i \in DOMAIN cacheEntries : LatInRange(cacheEntries[i].lat)

\* v has the length of an embedding of Ollama or of fallbackEmbedding
IsVector(v) == Len(v) \in { FallbackDim, OllamaDim }

\* C19: generateEmbedding gives a vector for every text and every outcome of
\* the request to Ollama (Embedding is its table); so every request that is
\* past its embedding step, and every entry, has a vector, and no request is
\* answered otherwise than 200 or 404.
C19_EmbeddingNeverFails ==
  /\ \A t \in Texts, outcome \in EmbeddingOutcomes : IsVector(Embedding[t, outcome])
  /\ \A s \in InFlight :
       req[s].pc = "geocoding" => IsVector(req[s].queryEmbedding)
  /\ \A i \in DOMAIN cacheEntries : IsVector(cacheEntries[i].embedding)
  /\ last.pc = "done" =>
       /\ last.status \in { 200, 404 }
       /\ (last.op = "geocode" \/ last.stores = 1) => IsVector(last.queryEmbedding)

\* C19 witness: a request whose embedding came from fallbackEmbedding, after
\* the request to Ollama failed, was answered 200 with the provider's result
\* and stored its entry with that embedding.
C19_Witness ==
  /\ last.pc = "done" /\ last.status = 200 /\ last.stores = 1
  /\ last.queryEmbedding = fallbackEmbedding(last.normalized)
  /\ ~IsZero(last.queryEmbedding)
  /\ cacheEntries # << >>
  /\ cacheEntries[Len(cacheEntries)].embedding = last.queryEmbedding

\* C20: a store() always appends its new entry, also when an entry of the
\* same normalized key is in the sequence: the new entry is another entry, the
\* old one stays where the FIFO order puts it, and when the full sequence
\* shifts its first entry out every later entry stays, of the same key or not.
C20_DuplicatesCoexist ==
  [][ clock' # clock =>
        /\ Len(cacheEntries') >= 1
        /\ LET new == cacheEntries'[Len(cacheEntries')]
               full == Len(cacheEntries) = Capacity
           IN  /\ new.timestamp = clock'
               /\ Len(cacheEntries') =
                    IF full THEN Capacity ELSE Len(cacheEntries) + 1
               /\ \A j \in DOMAIN cacheEntries :
                    cacheEntries[j].normalized = new.normalized =>
                      /\ new # cacheEntries[j]
                      /\ (j > 1 \/ ~full) =>
                           cacheEntries'[IF full THEN j - 1 ELSE j] = cacheEntries[j]
               /\ full =>
                    /\ removed' = cacheEntries[1]
                    /\ \A j \in 2..Len(cacheEntries) :
                         cacheEntries'[j - 1] = cacheEntries[j] ]_vars

\* C20 witness: of two entries of one normalized key the older one has been
\* shifted out and the newer one is still in the sequence.
C20_Witness ==
  /\ removed # Null
  /\ \E i \in DOMAIN cacheEntries :
       /\ cacheEntries[i].normalized = removed.normalized
       /\ cacheEntries[i].timestamp > removed.timestamp

\* C21: what a scan, a getStats or any other step finds is never the middle
\* of an insertion: the sequence holds at most Capacity entries (no push
\* without its shift), every value of the keyed store is an entry of the
\* sequence under its own key (no set without its push, no shift without its
\* del), and the newest entry is the one of the last store().
C21_NoHalfInsertion ==
  /\ Len(cacheEntries) <= Capacity
  /\ getStats.entries <= Capacity
  /\ \A k \in DOMAIN cache :
       \E i \in DOMAIN cacheEntries :
         cacheEntries[i] = cache[k] /\ k = Key(cacheEntries[i].normalized)
  /\ cacheEntries # << >> => cacheEntries[Len(cacheEntries)].timestamp = clock
  /\ \A s \in InFlight :
       req[s].pc = "geocoding" => req[s].cachedResult = Null

\* C21 witness: a forward request scanned and waits for the provider, and
\* since its scan another request has stored an entry that the scan would
\* return now.
C21_Witness ==
  \E s \in Slots :
    /\ req[s].pc = "geocoding"
    /\ last.pc = "done" /\ last.stores = 1
    /\ findSimilar(cacheEntries, req[s].normalized, req[s].queryEmbedding) # Null

\* C22: every request in flight is answered in the end, given that what it
\* waits for comes back; and a request that waits holds nothing back: the
\* other request in flight can go on with its scan or its store, a new
\* request can come in and scan, and clear can run.
C22_Completes ==
  /\ \A s \in Slots : (req[s].pc # "idle") ~> (req[s].pc = "idle")
  /\ [](\A s \in InFlight :
          /\ \A t \in InFlight : ENABLED Returns(t)
          /\ \A t \in Slots :
               MayStart(t) => \A lat \in Latitudes : ENABLED StartReverse(t, lat, 0)
          /\ cacheEntries # << >> => ENABLED clear)

\* C22 witness: a reverse request waits for the provider, and since its scan
\* a forward request has stored an entry inside its radius and was answered.
C22_Witness ==
  \E s \in Slots :
    /\ req[s].pc = "reverseGeocoding"
    /\ last.pc = "done" /\ last.op = "geocode" /\ last.stores = 1
    /\ Near(cacheEntries, req[s].lat, req[s].lng, REVERSE_RADIUS) # { }

C25_KeysCoverEntries ==
  \A i \in DOMAIN cacheEntries :
    Key(cacheEntries[i].normalized) \in DOMAIN cache

\* C26: every key of the keyed store is 'geo:' + normalized of an entry that
\* is in the sequence, whatever was stored, shifted out, cleared or expired;
\* getStats reports no more keys than entries.
C26_KeysWithinEntries ==
  /\ \A k \in DOMAIN cache :
       \E i \in DOMAIN cacheEntries : k = Key(cacheEntries[i].normalized)
  /\ getStats.keys <= getStats.entries

\* C26 witness: store() has shifted an entry out, a key is left, and
\* getStats reports fewer keys than entries.
C26_Witness ==
  /\ removed # Null
  /\ getStats.keys > 0
  /\ getStats.keys < getStats.entries

\* C27: no two requests for the same address with the same embedding wait
\* for the provider at the same time, and no two entries of the sequence have
\* the same normalized address and the same non-zero embedding.
C27_ResolvedOnce ==
  /\ \A s, t \in Slots :
       (/\ s # t
        /\ req[s].op = "geocode" /\ req[s].pc = "geocoding"
        /\ req[t].op = "geocode" /\ req[t].pc = "geocoding"
        /\ req[s].normalized = req[t].normalized)
         => req[s].queryEmbedding # req[t].queryEmbedding
  /\ \A i, j \in DOMAIN cacheEntries :
       (/\ i < j
        /\ cacheEntries[i].normalized = cacheEntries[j].normalized
        /\ ~IsZero(cacheEntries[i].embedding))
         => cacheEntries[i].embedding # cacheEntries[j].embedding

\* the candidates of the scan made last
ScanCandidates == CandidateSeq(scan.entries, scan.queryEmbedding)

\* the greatest element of a set of numbers
Greatest(S) == CHOOSE i \in S : \A j \in S : j <= i

\* the element of S that follows a
Following(S, a) == Least({ b \in S : b > a })

\* the candidates at the positions S of c are a chain: each one is under
\* DISTANCE_THRESHOLD from, and strictly more similar than, the one before it
IsChain(c, S, q) ==
  \A a \in S \ { Greatest(S) } :
    /\ Apart(c[Following(S, a)], c[a]) < DISTANCE_THRESHOLD
    /\ SimGreater(SimOf(c[Following(S, a)], q), SimOf(c[a], q))

\* C24: findSimilar can return an entry that is DISTANCE_THRESHOLD or more
\* from the first candidate: it does so exactly through a chain of candidates
\* that starts at the first one, and three candidates that are such a chain
\* end in the third one wherever it lies from the first.
C24_Drift ==
  scan.queryEmbedding # << >> =>
    LET c == ScanCandidates
        q == scan.queryEmbedding
        m == scan.bestMatch
    IN  /\ (m # Null /\ Apart(m, c[1]) >= DISTANCE_THRESHOLD) =>
             \E S \in SUBSET (DOMAIN c) :
               /\ 1 \in S /\ Cardinality(S) >= 3
               /\ m = c[Greatest(S)]
               /\ IsChain(c, S, q)
        /\ (Len(c) = 3 /\ IsChain(c, { 1, 2, 3 }, q)) => m = c[3]

\* C24 witness: the scan returned an entry that is 800 m from the first
\* candidate.
C24_Witness ==
  /\ scan.bestMatch # Null
  /\ Len(ScanCandidates) = 3
  /\ scan.bestMatch = ScanCandidates[3]
  /\ Apart(scan.bestMatch, ScanCandidates[1]) = 800

\* the candidates of the scan made last lie pairwise under DISTANCE_THRESHOLD
TightCluster ==
  \A i, j \in DOMAIN ScanCandidates :
    Apart(ScanCandidates[i], ScanCandidates[j]) < DISTANCE_THRESHOLD

\* C28: the entry findSimilar returns is at least as similar as the first
\* candidate; when the candidates lie pairwise under DISTANCE_THRESHOLD it is
\* the candidate of greatest similarity, the earliest one of those.
C28_BestOfCluster ==
  (scan.queryEmbedding # << >> /\ Len(ScanCandidates) > 0) =>
    LET c == ScanCandidates
        q == scan.queryEmbedding
        m == scan.bestMatch
    IN  /\ m # Null
        /\ ~SimGreater(SimOf(c[1], q), SimOf(m, q))
        /\ TightCluster =>
             \E k \in DOMAIN c :
               /\ m = c[k]
               /\ \A j \in DOMAIN c : ~SimGreater(SimOf(c[j], q), SimOf(c[k], q))
               /\ \A j \in 1..(k - 1) : SimGreater(SimOf(c[k], q), SimOf(c[j], q))

\* C28 witness: three candidates pairwise under DISTANCE_THRESHOLD, the
\* second and the third equally similar and more similar than the first;
\* the scan returned the second.
C28_Witness ==
  /\ scan.queryEmbedding # << >>
  /\ Len(ScanCandidates) = 3
  /\ TightCluster
  /\ SimGreater(SimOf(ScanCandidates[2], scan.queryEmbedding),
                SimOf(ScanCandidates[1], scan.queryEmbedding))
  /\ ScanCandidates[3].embedding = ScanCandidates[2].embedding
  /\ ScanCandidates[3].lat # ScanCandidates[2].lat
  /\ scan.bestMatch = ScanCandidates[2]

====
